---- MODULE Spec2Model ----
(***************************************************************************)
(* A model of src/data/Graph.js: the graph store (nodes, edges, the name   *)
(* index _nodesMap and the pair index _edgesMap), its mutation protocol,   *)
(* the two look-ups, the filter and each passes, breadth-first traversal,  *)
(* clone and the adjacency matrix importer.  The two indices are plain     *)
(* objects, so a look-up also answers the keys they inherit.               *)
(*                                                                         *)
(* Node and Edge objects live in a heap keyed by object identity (a        *)
(* positive integer).  A graph value holds references into the heap.       *)
(* Identities are only ever compared for equality, so after every          *)
(* operation the heap is renamed to a canonical form (Normalize): objects  *)
(* nobody references any more are dropped, live nodes and edges are        *)
(* numbered by their position in graph.nodes and graph.edges.              *)
(***************************************************************************)
EXTENDS Integers, Sequences, FiniteSets, TLC

VARIABLES graph, heap, res, bfs, inp

vars == <<graph, heap, res, bfs, inp>>

(***************************************************************************)
(* Bounds of the model.                                                    *)
(***************************************************************************)
MaxNodes == 3
MaxEdges == 2
MaxSize == 2

\* Node names used by the callers.  "a" and "a-a" are distinct names whose
\* pair keys coincide: "a" + "-" + "a-a" = "a-a" + "-" + "a".
Names == {"a", "a-a", "b"}

\* Payload values the callers attach to nodes.
Values == {1, 2}
FirstValue == CHOOSE v \in Values : \A w \in Values : v <= w

\* Weights of the adjacency matrix cells.
Weights == {0, 1, 2}

(***************************************************************************)
(* JavaScript values and helpers.                                          *)
(***************************************************************************)
\* undefined / absent, as the result of a failed lookup or a bare return.
NoRef == 0

\* The property key (and printed form) of the value undefined.
Undefined == "undefined"

Obj(name, value) == [type |-> "object", name |-> name, value |-> value]
Str(s) == [type |-> "string", str |-> s]
Ref(id) == [type |-> "node", ref |-> id]
Null == [type |-> "null"]
Undef == [type |-> "undefined"]

\* The two indices are plain objects ({}), so a key they do not hold is
\* looked up in Object.prototype.  ProtoKeys are the inherited keys a caller
\* may name; "constructor" yields the function Object, a truthy value that
\* is no Node: its name is "Object" and it has no edges, inEdges, outEdges.
ObjectFn == -1
ProtoKeys == {"constructor"}

\* The outcome of a call that threw (a TypeError), in place of its result.
Thrown == -2

EmptyMap == [k \in {} |-> NoRef]
Lookup(map, k) ==
    IF k \in DOMAIN map THEN map[k]
    ELSE IF k \in ProtoKeys THEN ObjectFn
    ELSE NoRef
Put(map, k, v) == [x \in DOMAIN map \cup {k} |-> IF x = k THEN v ELSE map[x]]
Del(map, k) == [x \in DOMAIN map \ {k} |-> map[x]]

\* util.indexOf: the 0-based index of the first occurrence, or -1.
IndexOf(s, x) ==
    IF \E i \in 1..Len(s) : s[i] = x
    THEN (CHOOSE i \in 1..Len(s) : s[i] = x /\ \A j \in 1..(i - 1) : s[j] # x) - 1
    ELSE -1

\* Array.prototype.splice(start, 1): a negative start counts from the end,
\* so splice(-1, 1) removes the last element.
Splice(s, start) ==
    LET n == Len(s)
        k == IF start < 0
             THEN (IF n + start < 0 THEN 0 ELSE n + start)
             ELSE (IF start > n THEN n ELSE start)
    IN  IF k >= n THEN s ELSE SubSeq(s, 1, k) \o SubSeq(s, k + 2, n)

\* A fresh object identity: the smallest one not in use.
NewId(used) == CHOOSE i \in 1..(Cardinality(used) + 1) :
                   i \notin used /\ \A j \in 1..(i - 1) : j \in used

Range(s) == {s[i] : i \in 1..Len(s)}

(***************************************************************************)
(* Node and Edge objects.                                                  *)
(***************************************************************************)
\* option.name, as read from the argument of addNode: a string primitive
\* has no such property.
NameProp(option) == IF option.type = "object" THEN option.name ELSE Undefined

\* Node.init: name = option.name || '', $option = option || null.
NodeInit(option) ==
    [name     |-> IF NameProp(option) = Undefined THEN "" ELSE NameProp(option),
     option   |-> IF option.type = "undefined" \/ (option.type = "string" /\ option.str = "")
                  THEN Null ELSE option,
     inEdges  |-> <<>>,
     outEdges |-> <<>>,
     edges    |-> <<>>]

\* Edge.init and the two fields addEdge sets.
EdgeInit(n1, n2, option) == [node1 |-> n1, node2 |-> n2, option |-> option]

\* new Graph(directed)
NewGraph(directed) ==
    [directed |-> directed,
     nodes    |-> <<>>,
     edges    |-> <<>>,
     nodesMap |-> EmptyMap,
     edgesMap |-> EmptyMap]

EmptyHeap == [node |-> EmptyMap, edge |-> EmptyMap]

(***************************************************************************)
(* Graph store: each operator takes the graph G and the heap H and returns *)
(* the graph, the heap and the value returned by the method.               *)
(***************************************************************************)
\* addNode without the look-up of the name index.
addNodeNoLookup(G, H, option) ==
    LET node == NewId(DOMAIN H.node) IN
    [G   |-> [G EXCEPT !.nodes = Append(@, node),
                       !.nodesMap = Put(@, NameProp(option), node)],
     H   |-> [H EXCEPT !.node = Put(@, node, NodeInit(option))],
     ret |-> node]

addNode(G, H, option) ==
    LET name == NameProp(option) IN
    IF Lookup(G.nodesMap, name) # NoRef
    THEN [G |-> G, H |-> H, ret |-> Lookup(G.nodesMap, name)]
    ELSE LET node == NewId(DOMAIN H.node) IN
         [G   |-> [G EXCEPT !.nodes = Append(@, node),
                            !.nodesMap = Put(@, name, node)],
          H   |-> [H EXCEPT !.node = Put(@, node, NodeInit(option))],
          ret |-> node]

getNodeByName(G, name) == Lookup(G.nodesMap, name)

\* A string argument is looked up in the name index, a Node is used as is.
Resolve(G, n) == IF n.type = "string" THEN Lookup(G.nodesMap, n.str) ELSE n.ref

\* n.name of what a lookup or a caller handed in.
NameOf(H, n) == IF n = ObjectFn THEN "Object" ELSE H.node[n].name

EdgeKey(H, n1, n2) == NameOf(H, n1) \o "-" \o NameOf(H, n2)

addEdge(G, H, a1, a2, option) ==
    LET n1 == Resolve(G, a1)
        n2 == Resolve(G, a2)
    IN  IF n1 = NoRef \/ n2 = NoRef
        THEN [G |-> G, H |-> H, ret |-> NoRef]
        ELSE
        LET key == EdgeKey(H, n1, n2) IN
        IF Lookup(G.edgesMap, key) # NoRef
        THEN [G |-> G, H |-> H, ret |-> Lookup(G.edgesMap, key)]
        ELSE
        LET edge == NewId(DOMAIN H.edge)
            E == Put(H.edge, edge, EdgeInit(n1, n2, option))
        IN  \* n1.outEdges.push / n1.edges.push on a value without such a list
            IF n1 = ObjectFn
            THEN [G |-> G, H |-> H, ret |-> Thrown]
            ELSE IF n2 = ObjectFn
            \* n1's first list has been pushed to when n2's list is missed
            THEN [G   |-> G,
                  H   |-> [node |-> IF G.directed
                                    THEN [H.node EXCEPT ![n1].outEdges = Append(@, edge)]
                                    ELSE [H.node EXCEPT ![n1].edges = Append(@, edge)],
                           edge |-> E],
                  ret |-> Thrown]
            ELSE
            LET N1 == IF G.directed
                      THEN [H.node EXCEPT ![n1].outEdges = Append(@, edge)]
                      ELSE H.node
                N2 == IF G.directed
                      THEN [N1 EXCEPT ![n2].inEdges = Append(@, edge)]
                      ELSE N1
                N3 == [N2 EXCEPT ![n1].edges = Append(@, edge)]
                N4 == IF n1 # n2
                      THEN [N3 EXCEPT ![n2].edges = Append(@, edge)]
                      ELSE N3
            IN  [G   |-> [G EXCEPT !.edges = Append(@, edge),
                                   !.edgesMap = Put(@, key, edge)],
                 H   |-> [node |-> N4, edge |-> E],
                 ret |-> edge]

removeEdge(G, H, edge) ==
    LET n1 == H.edge[edge].node1
        n2 == H.edge[edge].node2
        key == EdgeKey(H, n1, n2)
        N1 == IF G.directed
              THEN [H.node EXCEPT ![n1].outEdges = Splice(@, IndexOf(@, edge))]
              ELSE H.node
        N2 == IF G.directed
              THEN [N1 EXCEPT ![n2].inEdges = Splice(@, IndexOf(@, edge))]
              ELSE N1
        N3 == [N2 EXCEPT ![n1].edges = Splice(@, IndexOf(@, edge))]
        N4 == IF n1 # n2
              THEN [N3 EXCEPT ![n2].edges = Splice(@, IndexOf(@, edge))]
              ELSE N3
    IN  [G   |-> [G EXCEPT !.edgesMap = Del(@, key),
                           !.edges = Splice(@, IndexOf(@, edge))],
         H   |-> [H EXCEPT !.node = N4],
         ret |-> NoRef]

getEdge(G, H, a1, a2) ==
    LET n1 == IF a1.type = "string" THEN a1.str ELSE H.node[a1.ref].name
        n2 == IF a2.type = "string" THEN a2.str ELSE H.node[a2.ref].name
    IN  IF G.directed
        THEN Lookup(G.edgesMap, n1 \o "-" \o n2)
        ELSE IF Lookup(G.edgesMap, n1 \o "-" \o n2) # NoRef
             THEN Lookup(G.edgesMap, n1 \o "-" \o n2)
             ELSE Lookup(G.edgesMap, n2 \o "-" \o n1)

\* The scan of removeNode with i advanced after a removal as well.
RECURSIVE removeNodeScanAdvance(_, _, _, _)
removeNodeScanAdvance(G, H, node, i) ==
    IF i >= Len(G.edges)
    THEN [G |-> G, H |-> H, ret |-> NoRef]
    ELSE LET edge == G.edges[i + 1] IN
         IF H.edge[edge].node1 = node \/ H.edge[edge].node2 = node
         THEN LET r == removeEdge(G, H, edge) IN removeNodeScanAdvance(r.G, r.H, node, i + 1)
         ELSE removeNodeScanAdvance(G, H, node, i + 1)

\* The scan of removeNode over this.edges: i is held on a removal.
RECURSIVE removeNodeScan(_, _, _, _)
removeNodeScan(G, H, node, i) ==
    IF i >= Len(G.edges)
    THEN [G |-> G, H |-> H, ret |-> NoRef]
    ELSE LET edge == G.edges[i + 1] IN
         IF H.edge[edge].node1 = node \/ H.edge[edge].node2 = node
         THEN LET r == removeEdge(G, H, edge) IN removeNodeScan(r.G, r.H, node, i)
         ELSE removeNodeScan(G, H, node, i + 1)

removeNode(G, H, a) ==
    LET node == Resolve(G, a) IN
    IF a.type = "string" /\ node = NoRef
    THEN [G |-> G, H |-> H, ret |-> NoRef]
    ELSE removeNodeScan(
             [G EXCEPT !.nodesMap = Del(@, NameOf(H, node)),
                       !.nodes = Splice(@, IndexOf(@, node))],
             H, node, 0)

clear(G, H) ==
    [G   |-> [G EXCEPT !.nodes = <<>>, !.edges = <<>>,
                       !.nodesMap = EmptyMap, !.edgesMap = EmptyMap],
     H   |-> H,
     ret |-> NoRef]

\* Array element read this.nodes[i]: undefined when i is out of range.
At(s, i) == IF i >= 0 /\ i < Len(s) THEN s[i + 1] ELSE NoRef

\* filterNode and filterEdge.  The callback cb is a predicate on the entity
\* it is handed, given as the set of entities it accepts; calls is the
\* record of its invocations <<entity, index>>.
\* The loop of filterNode with i advanced after a removal as well.
RECURSIVE filterNodeLoopAdvance(_, _, _, _, _, _)
filterNodeLoopAdvance(G, H, cb, i, len, calls) ==
    IF i >= len
    THEN [G |-> G, H |-> H, ret |-> NoRef, calls |-> calls]
    ELSE LET node == At(G.nodes, i) IN
         IF node \in cb
         THEN filterNodeLoopAdvance(G, H, cb, i + 1, len, Append(calls, <<node, i>>))
         ELSE LET r == removeNode(G, H, Ref(At(G.nodes, i))) IN
              filterNodeLoopAdvance(r.G, r.H, cb, i + 1, len - 1, Append(calls, <<node, i>>))

RECURSIVE filterNodeLoop(_, _, _, _, _, _)
filterNodeLoop(G, H, cb, i, len, calls) ==
    IF i >= len
    THEN [G |-> G, H |-> H, ret |-> NoRef, calls |-> calls]
    ELSE LET node == At(G.nodes, i) IN
         IF node \in cb
         THEN filterNodeLoop(G, H, cb, i + 1, len, Append(calls, <<node, i>>))
         ELSE LET r == removeNode(G, H, Ref(At(G.nodes, i))) IN
              filterNodeLoop(r.G, r.H, cb, i, len - 1, Append(calls, <<node, i>>))

filterNode(G, H, cb) == filterNodeLoop(G, H, cb, 0, Len(G.nodes), <<>>)

RECURSIVE filterEdgeLoop(_, _, _, _, _, _)
filterEdgeLoop(G, H, cb, i, len, calls) ==
    IF i >= len
    THEN [G |-> G, H |-> H, ret |-> NoRef, calls |-> calls]
    ELSE LET edge == At(G.edges, i) IN
         IF edge \in cb
         THEN filterEdgeLoop(G, H, cb, i + 1, len, Append(calls, <<edge, i>>))
         ELSE LET r == removeEdge(G, H, At(G.edges, i)) IN
              filterEdgeLoop(r.G, r.H, cb, i, len - 1, Append(calls, <<edge, i>>))

filterEdge(G, H, cb) == filterEdgeLoop(G, H, cb, 0, Len(G.edges), <<>>)

\* clone: the two loops re-add nodes and edges to a new Graph.  addNode is
\* handed the node's name (a string) as its option argument; addEdge is
\* handed the endpoint names and e.data, a property no Edge has.
RECURSIVE cloneNodes(_, _, _, _)
cloneNodes(this, copy, H, i) ==
    IF i >= Len(this.nodes)
    THEN [G |-> copy, H |-> H]
    ELSE LET r == addNode(copy, H, Str(H.node[this.nodes[i + 1]].name)) IN
         cloneNodes(this, r.G, r.H, i + 1)

RECURSIVE cloneEdges(_, _, _, _)
cloneEdges(this, copy, H, i) ==
    IF i >= Len(this.edges)
    THEN [G |-> copy, H |-> H]
    ELSE LET e == H.edge[this.edges[i + 1]]
             r == addEdge(copy, H, Str(H.node[e.node1].name),
                          Str(H.node[e.node2].name), Undef)
         IN  cloneEdges(this, r.G, r.H, i + 1)

clone(this, H) ==
    LET a == cloneNodes(this, NewGraph(this.directed), H, 0)
        b == cloneEdges(this, a.G, a.H, 0)
    IN  [G |-> b.G, H |-> b.H]

(***************************************************************************)
(* Matrix importer.  nodesData is the sequence of the records' names       *)
(* (nodesData[i].name); matrix is a sequence of rows.                      *)
(***************************************************************************)
\* The result of arithmetic on undefined, and of reading past a row's end.
NaN == -1
Plus(x, y) == IF x = NaN \/ y = NaN THEN NaN ELSE x + y
Cell(matrix, i, j) ==
    IF j < Len(matrix[i + 1]) THEN matrix[i + 1][j + 1] ELSE NaN
Truthy(item) == item # 0 /\ item # NaN

\* node.$option.value = v and the like.  The module is in strict mode:
\* creating a property on a string primitive, or on null, throws TypeError.
CanSet(H, node) == node # NoRef /\ H.node[node].option.type = "object"
SetOption(H, node, field, v) ==
    [H EXCEPT !.node[node].option = Put(@, field, v)]
AddOption(H, node, field, item) ==
    [H EXCEPT !.node[node].option = Put(@, field, Plus(@[field], item))]

\* First loop: one addNode per record, handed the record's name.
RECURSIVE fromMatrixNodes(_, _, _, _, _)
fromMatrixNodes(G, H, nodesData, directed, i) ==
    IF i >= Len(nodesData)
    THEN [kind |-> "graph", G |-> G, H |-> H]
    ELSE LET r == addNode(G, H, Str(nodesData[i + 1]))
             node == r.ret
         IN  IF ~CanSet(r.H, node)
             THEN [kind |-> "fault", G |-> r.G, H |-> r.H]
             ELSE LET H1 == SetOption(r.H, node, "value", 0)
                      H2 == IF directed
                            THEN SetOption(SetOption(H1, node, "inValue", 0),
                                           node, "outValue", 0)
                            ELSE H1
                  IN  fromMatrixNodes(r.G, H2, nodesData, directed, i + 1)

\* Second loop: every cell (i, j) is added to the values of nodes i and j.
RECURSIVE fromMatrixValues(_, _, _, _, _, _)
fromMatrixValues(G, H, matrix, directed, i, j) ==
    LET size == Len(matrix) IN
    IF i >= size THEN [kind |-> "graph", G |-> G, H |-> H]
    ELSE IF j >= size THEN fromMatrixValues(G, H, matrix, directed, i + 1, 0)
    ELSE LET item == Cell(matrix, i, j)
             ni == At(G.nodes, i)
             nj == At(G.nodes, j)
         IN  IF ni = NoRef \/ nj = NoRef
             THEN [kind |-> "fault", G |-> G, H |-> H]
             ELSE LET H1 == IF directed
                            THEN AddOption(AddOption(H, ni, "outValue", item),
                                           nj, "inValue", item)
                            ELSE H
                      H2 == AddOption(AddOption(H1, ni, "value", item),
                                      nj, "value", item)
                  IN  fromMatrixValues(G, H2, matrix, directed, i, j + 1)

\* Third loop: the cells with j >= i.
RECURSIVE fromMatrixEdges(_, _, _, _, _, _)
fromMatrixEdges(G, H, matrix, directed, i, j) ==
    LET size == Len(matrix) IN
    IF i >= size THEN [kind |-> "graph", G |-> G, H |-> H]
    ELSE IF j >= size THEN fromMatrixEdges(G, H, matrix, directed, i + 1, i + 1)
    ELSE LET item == Cell(matrix, i, j) IN
         IF item = 0
         THEN fromMatrixEdges(G, H, matrix, directed, i, j + 1)
         ELSE LET n1 == At(G.nodes, i)
                  n2 == At(G.nodes, j)
              IN  IF n1 = NoRef \/ n2 = NoRef
                  THEN [kind |-> "fault", G |-> G, H |-> H]
                  ELSE
                  LET r == addEdge(G, H, Ref(n1), Ref(n2), [type |-> "object"])
                      H1 == [r.H EXCEPT !.edge[r.ret].option = Put(@, "weight", item)]
                  IN  IF i # j /\ directed /\ Truthy(Cell(matrix, j, i))
                      THEN LET q == addEdge(r.G, H1, Ref(n2), Ref(n1), [type |-> "object"])
                               H2 == [q.H EXCEPT !.edge[q.ret].option =
                                          Put(@, "weight", Cell(matrix, j, i))]
                           IN  fromMatrixEdges(q.G, H2, matrix, directed, i, j + 1)
                      ELSE fromMatrixEdges(r.G, H1, matrix, directed, i, j + 1)

\* kind is "absent" (the function returned undefined), "fault" (it threw)
\* or "graph" (it returned G).
fromMatrix(nodesData, matrix, directed) ==
    IF \/ Len(matrix) = 0
       \/ Len(matrix[1]) # Len(matrix)
       \/ Len(nodesData) # Len(matrix)
    THEN [kind |-> "absent", G |-> NewGraph(FALSE), H |-> EmptyHeap]
    ELSE LET a == fromMatrixNodes(NewGraph(directed), EmptyHeap, nodesData, directed, 0) IN
         IF a.kind = "fault" THEN a
         ELSE LET b == fromMatrixValues(a.G, a.H, matrix, directed, 0, 0) IN
              IF b.kind = "fault" THEN b
              ELSE fromMatrixEdges(b.G, b.H, matrix, directed, 0, 0)

(***************************************************************************)
(* The record of the last call: its arguments, what it returned and what   *)
(* the caller observed.  Fields a call does not use keep their default.    *)
(*   op      the method called                                             *)
(*   name, value, flag   scalar arguments and outcomes                     *)
(*   n1, n2, e1          Node and Edge references (arguments, results)     *)
(*   nseq, eseq          this.nodes and this.edges when the call began     *)
(*   nset, eset          the entities a filter callback accepts            *)
(*   ncalls, ecalls      the callback invocations, in order                *)
(*   g                   the Graph a call returned                         *)
(*   fault               the call threw                                    *)
(*   running             the call (an eachNode or eachEdge pass) is under  *)
(*                       way: value is its loop index i, nseq (eseq) the   *)
(*                       sequence when it began, ncalls (ecalls) the       *)
(*                       callback invocations so far, nset (eset) what the *)
(*                       callback has removed, name is "current" as long   *)
(*                       as the callback changed nothing but by removing   *)
(*                       the entity it was called with                     *)
(***************************************************************************)
NoRes ==
    [op |-> "none", name |-> "", value |-> 0, flag |-> FALSE,
     n1 |-> NoRef, n2 |-> NoRef, e1 |-> NoRef,
     nseq |-> <<>>, eseq |-> <<>>, nset |-> {}, eset |-> {},
     ncalls |-> <<>>, ecalls |-> <<>>,
     g |-> NewGraph(FALSE), fault |-> FALSE, running |-> FALSE]

(***************************************************************************)
(* Canonical object identities.                                            *)
(***************************************************************************)
MapVals(map) == {map[k] : k \in DOMAIN map}
MapSeq(s, f) == [i \in 1..Len(s) |-> f[s[i]]]

RECURSIVE SetToSeq(_)
SetToSeq(S) ==
    IF S = {} THEN <<>>
    ELSE LET m == CHOOSE x \in S : \A y \in S : x <= y
         IN  <<m>> \o SetToSeq(S \ {m})

\* The objects reachable from the node set N and the edge set E.
RECURSIVE Reach(_, _, _)
Reach(H, N, E) ==
    LET N2 == (N \cup {H.edge[e].node1 : e \in E} \cup {H.edge[e].node2 : e \in E})
                  \ {ObjectFn}
        E2 == E \cup UNION {Range(H.node[n].edges) \cup Range(H.node[n].inEdges)
                              \cup Range(H.node[n].outEdges) : n \in N}
    IN  IF N2 = N /\ E2 = E THEN [N |-> N, E |-> E] ELSE Reach(H, N2, E2)

\* The one element of a singleton set.  Only({F(x) : x \in {v}}) evaluates v
\* once and hands F its value.
Only(S) == CHOOSE x \in S : TRUE

\* The renaming that maps the objects of ord to their positions in it.
Perm(ord) == [x \in Range(ord) \cup {NoRef, ObjectFn} |->
                 IF x \in {NoRef, ObjectFn} THEN x ELSE IndexOf(ord, x) + 1]

RenG(X, pN, pE) ==
    [directed |-> X.directed,
     nodes    |-> MapSeq(X.nodes, pN),
     edges    |-> MapSeq(X.edges, pE),
     nodesMap |-> [k \in DOMAIN X.nodesMap |-> pN[X.nodesMap[k]]],
     edgesMap |-> [k \in DOMAIN X.edgesMap |-> pE[X.edgesMap[k]]]]

Rename(G, H, r, ordN, ordE, pN, pE) ==
    [G |-> RenG(G, pN, pE),
     H |-> [node |-> [i \in 1..Len(ordN) |->
                        [H.node[ordN[i]] EXCEPT !.inEdges = MapSeq(@, pE),
                                                !.outEdges = MapSeq(@, pE),
                                                !.edges = MapSeq(@, pE)]],
            edge |-> [i \in 1..Len(ordE) |->
                        [H.edge[ordE[i]] EXCEPT !.node1 = pN[@], !.node2 = pN[@]]]],
     r |-> [r EXCEPT !.n1 = pN[@], !.n2 = pN[@], !.e1 = pE[@],
                     !.nseq = MapSeq(@, pN), !.eseq = MapSeq(@, pE),
                     !.nset = {pN[x] : x \in @}, !.eset = {pE[x] : x \in @},
                     !.ncalls = [i \in 1..Len(@) |-> <<pN[@[i][1]], @[i][2]>>],
                     !.ecalls = [i \in 1..Len(@) |-> <<pE[@[i][1]], @[i][2]>>],
                     !.g = RenG(@, pN, pE)]]

\* The objects the graph G and the record r refer to, in canonical order:
\* the live nodes (edges) in the order of G.nodes (G.edges), then the rest.
Kept(G, H, r) ==
    Reach(H,
          (Range(G.nodes) \cup MapVals(G.nodesMap)
              \cup Range(r.g.nodes) \cup MapVals(r.g.nodesMap)
              \cup {r.n1, r.n2} \cup Range(r.nseq) \cup r.nset
              \cup {c[1] : c \in Range(r.ncalls)}) \ {NoRef, ObjectFn},
          (Range(G.edges) \cup MapVals(G.edgesMap)
              \cup Range(r.g.edges) \cup MapVals(r.g.edgesMap)
              \cup {r.e1} \cup Range(r.eseq) \cup r.eset
              \cup {c[1] : c \in Range(r.ecalls)}) \ {NoRef})

Normalize(G, H, r) ==
    Only({ Only({ Only({ Rename(G, H, r, ordN, ordE, pN, pE) :
                           pN \in {Perm(ordN)}, pE \in {Perm(ordE)} }) :
                    ordN \in {G.nodes \o SetToSeq(kept.N \ Range(G.nodes))},
                    ordE \in {G.edges \o SetToSeq(kept.E \ Range(G.edges))} }) :
             kept \in {Kept(G, H, r)} })

(***************************************************************************)
(* State machine.                                                          *)
(***************************************************************************)
\* The state of a breadthFirstTraverse call.
\*   pc           idle: no call; loop: at the test of the while loop;
\*                scan: at the test of the for loop; done: returned;
\*                thrown: ended by a TypeError
\*   startNode    the resolved start node
\*   visited      the __visited marks of the nodes.  The marks of all live
\*                nodes are reset when a call begins, so they are kept here,
\*                for the duration of one call
\*   queue, currentNode, i     the locals of the method
\*   calls        the invocations <<node, predecessor>> of cb so far
\*   stopped      cb has returned a truthy value
BfsIdle ==
    [pc |-> "idle", edgeType |-> "edges", startNode |-> NoRef,
     visited |-> EmptyMap, queue |-> <<>>, currentNode |-> NoRef, i |-> 0,
     calls |-> <<>>, stopped |-> FALSE]

\* What the callers hand in: the names they use where a name is expected,
\* and the arguments of fromMatrix.
NoInput == [names |-> Names, nodesData |-> <<>>, matrix |-> <<>>, directed |-> FALSE]

\* The state after new Graph(directed).
Init ==
    /\ graph \in {NewGraph(d) : d \in BOOLEAN}
    /\ heap = EmptyHeap
    /\ res = NoRes
    /\ bfs = BfsIdle
    /\ inp = NoInput

\* The calls that hand a removed edge or Node back to the graph.
Misuse == {"removeEdgeAgain", "removeNodeAgain"}

\* No traversal is under way: the structure is mutated synchronously and a
\* traversal callback does not mutate it.  A call that threw ends the run of
\* its caller, and a run is followed up to its first misuse.
Quiet == bfs.pc = "idle" /\ ~res.fault /\ ~res.running /\ res.op \notin Misuse

Commit(G, H, r) ==
    \E n \in {Normalize(G, H, r)} :
    /\ graph' = n.G
    /\ heap' = n.H
    /\ res' = n.r
    /\ UNCHANGED <<bfs, inp>>

\* What a caller may pass where a node is expected: a name or a live Node.
\* (addEdge is called with two names or with two Nodes.)
NodeArgs == {Str(n) : n \in inp.names} \cup {Ref(n) : n \in Range(graph.nodes)}

\* The payload is opaque to the store, so a node is first created with the
\* payload FirstValue; a repeated addNode may bring any payload.
AddNode ==
    /\ Quiet
    /\ \E name \in inp.names :
       \E v \in (IF getNodeByName(graph, name) = NoRef THEN {FirstValue} ELSE Values) :
          \E r \in {addNode(graph, heap, Obj(name, v))} :
          /\ Len(r.G.nodes) <= MaxNodes
          /\ Commit(r.G, r.H, [NoRes EXCEPT !.op = "addNode", !.name = name,
                                            !.value = v, !.n1 = r.ret,
                                            !.flag = (Len(r.G.nodes) > Len(graph.nodes))])

AddEdge ==
    /\ Quiet
    /\ \E a1 \in NodeArgs, a2 \in NodeArgs :
          /\ a1.type = a2.type
          /\ \E r \in {addEdge(graph, heap, a1, a2, Undef)} :
                /\ Len(r.G.edges) <= MaxEdges
                /\ Commit(r.G, r.H, [NoRes EXCEPT !.op = "addEdge",
                                                  !.n1 = Resolve(graph, a1),
                                                  !.n2 = Resolve(graph, a2),
                                                  !.e1 = IF r.ret = Thrown THEN NoRef
                                                         ELSE r.ret,
                                                  !.fault = (r.ret = Thrown),
                                                  !.flag = (Len(r.G.edges) > Len(graph.edges))])

RemoveEdge ==
    /\ Quiet
    /\ \E edge \in Range(graph.edges) :
          \E r \in {removeEdge(graph, heap, edge)} :
          Commit(r.G, r.H, [NoRes EXCEPT !.op = "removeEdge", !.e1 = edge])

RemoveNode ==
    /\ Quiet
    /\ \E a \in NodeArgs :
          \E r \in {removeNode(graph, heap, a)} :
          Commit(r.G, r.H, [NoRes EXCEPT !.op = "removeNode",
                                         !.name = a.type,
                                         !.n1 = Resolve(graph, a),
                                         !.value = Len(graph.edges) - Len(r.G.edges)])

\* Misuse: the caller still holds the edge it removed last and hands it to
\* removeEdge a second time.
RemoveEdgeAgain ==
    /\ Quiet
    /\ res.op = "removeEdge"
    /\ res.e1 \notin Range(graph.edges)
    /\ \E r \in {removeEdge(graph, heap, res.e1)} :
          Commit(r.G, r.H, [NoRes EXCEPT !.op = "removeEdgeAgain", !.e1 = res.e1])

\* Misuse: the caller still holds the Node it removed last and hands the
\* object to removeNode a second time.
RemoveNodeAgain ==
    /\ Quiet
    /\ res.op = "removeNode"
    /\ res.n1 # NoRef
    /\ res.n1 \notin Range(graph.nodes)
    /\ \E r \in {removeNode(graph, heap, Ref(res.n1))} :
          Commit(r.G, r.H, [NoRes EXCEPT !.op = "removeNodeAgain", !.n1 = res.n1])

FilterNode ==
    /\ Quiet
    /\ \E cb \in SUBSET Range(graph.nodes) :
          \E r \in {filterNode(graph, heap, cb)} :
          Commit(r.G, r.H, [NoRes EXCEPT !.op = "filterNode", !.nset = cb,
                                         !.nseq = graph.nodes,
                                         !.ncalls = r.calls,
                                         !.value = Len(graph.edges) - Len(r.G.edges)])

FilterEdge ==
    /\ Quiet
    /\ \E cb \in SUBSET Range(graph.edges) :
          \E r \in {filterEdge(graph, heap, cb)} :
          Commit(r.G, r.H, [NoRes EXCEPT !.op = "filterEdge",
                                         !.value = Len(graph.edges) - Len(r.G.edges)])

Clear ==
    /\ Quiet
    /\ \E r \in {clear(graph, heap)} :
       Commit(r.G, r.H, [NoRes EXCEPT !.op = "clear"])

\* eachNode: len = this.nodes.length is taken when the call begins.
EachNode ==
    /\ Quiet
    /\ Commit(graph, heap, [NoRes EXCEPT !.op = "eachNode", !.running = TRUE,
                                         !.name = "current", !.nseq = graph.nodes])

\* What a callback of eachNode may do to the graph when it is invoked on
\* node: nothing, remove a node, or add a node.
NodeCallbacks ==
    {[act |-> "none", n |-> NoRef, name |-> ""]}
        \cup {[act |-> "removeNode", n |-> n, name |-> ""] : n \in Range(graph.nodes)}
        \cup {[act |-> "addNode", n |-> NoRef, name |-> name] :
                 name \in {x \in inp.names : getNodeByName(graph, x) = NoRef}}

\* The loop test of eachNode and one iteration: the slot test, the callback
\* and what it does, i++.  Object identities stay as they are during a pass.
EachNodeStep ==
    /\ res.op = "eachNode" /\ res.running
    /\ IF res.value >= Len(res.nseq)
       THEN Commit(graph, heap, [res EXCEPT !.running = FALSE])
       ELSE
       /\ UNCHANGED <<bfs, inp>>
       /\ LET node == At(graph.nodes, res.value) IN
          IF node = NoRef
          THEN /\ res' = [res EXCEPT !.value = @ + 1]
               /\ UNCHANGED <<graph, heap>>
          ELSE \E cb \in NodeCallbacks :
               \E r \in {IF cb.act = "removeNode" THEN removeNode(graph, heap, Ref(cb.n))
                          ELSE IF cb.act = "addNode"
                          THEN addNode(graph, heap, Obj(cb.name, FirstValue))
                          ELSE [G |-> graph, H |-> heap, ret |-> NoRef]} :
                  /\ Len(r.G.nodes) <= MaxNodes
                  /\ graph' = r.G
                  /\ heap' = r.H
                  /\ res' = [res EXCEPT
                               !.value = @ + 1,
                               !.ncalls = Append(@, <<node, res.value>>),
                               !.nset = IF cb.act = "removeNode" THEN @ \cup {cb.n} ELSE @,
                               !.name = IF cb.act = "none" \/ (cb.act = "removeNode" /\ cb.n = node)
                                        THEN @ ELSE "other"]

\* eachEdge: the same over this.edges.
EachEdge ==
    /\ Quiet
    /\ Commit(graph, heap, [NoRes EXCEPT !.op = "eachEdge", !.running = TRUE,
                                         !.name = "current", !.eseq = graph.edges])

\* What a callback of eachEdge may do to the graph: nothing, remove an edge,
\* or add an edge between two nodes.
EdgeCallbacks ==
    {[act |-> "none", e |-> NoRef, n1 |-> NoRef, n2 |-> NoRef]}
        \cup {[act |-> "removeEdge", e |-> e, n1 |-> NoRef, n2 |-> NoRef] :
                 e \in Range(graph.edges)}
        \cup {[act |-> "addEdge", e |-> NoRef, n1 |-> n1, n2 |-> n2] :
                 n1 \in Range(graph.nodes), n2 \in Range(graph.nodes)}

EachEdgeStep ==
    /\ res.op = "eachEdge" /\ res.running
    /\ IF res.value >= Len(res.eseq)
       THEN Commit(graph, heap, [res EXCEPT !.running = FALSE])
       ELSE
       /\ UNCHANGED <<bfs, inp>>
       /\ LET edge == At(graph.edges, res.value) IN
          IF edge = NoRef
          THEN /\ res' = [res EXCEPT !.value = @ + 1]
               /\ UNCHANGED <<graph, heap>>
          ELSE \E cb \in EdgeCallbacks :
               \E r \in {IF cb.act = "removeEdge" THEN removeEdge(graph, heap, cb.e)
                          ELSE IF cb.act = "addEdge"
                          THEN addEdge(graph, heap, Ref(cb.n1), Ref(cb.n2), Undef)
                          ELSE [G |-> graph, H |-> heap, ret |-> NoRef]} :
                  /\ Len(r.G.edges) <= MaxEdges
                  /\ cb.act = "addEdge" => Len(r.G.edges) > Len(graph.edges)
                  /\ graph' = r.G
                  /\ heap' = r.H
                  /\ res' = [res EXCEPT
                               !.value = @ + 1,
                               !.ecalls = Append(@, <<edge, res.value>>),
                               !.eset = IF cb.act = "removeEdge" THEN @ \cup {cb.e} ELSE @,
                               !.name = IF cb.act = "none" \/ (cb.act = "removeEdge" /\ cb.e = edge)
                                        THEN @ ELSE "other"]

\* The node in this.nodes a caller means by an argument: the Node itself, or
\* the node in this.nodes that carries the name.
LiveNamed(G, H, name) ==
    IF \E n \in Range(G.nodes) : H.node[n].name = name
    THEN CHOOSE n \in Range(G.nodes) : H.node[n].name = name
    ELSE NoRef
ArgNode(G, H, a) == IF a.type = "string" THEN LiveNamed(G, H, a.str) ELSE a.ref

GetNodeByName ==
    /\ Quiet
    /\ \E name \in inp.names :
          Commit(graph, heap, [NoRes EXCEPT !.op = "getNodeByName", !.name = name,
                                            !.n1 = getNodeByName(graph, name)])

GetEdge ==
    /\ Quiet
    /\ \E a1 \in NodeArgs, a2 \in NodeArgs :
          Commit(graph, heap, [NoRes EXCEPT !.op = "getEdge",
                                            !.n1 = ArgNode(graph, heap, a1),
                                            !.n2 = ArgNode(graph, heap, a2),
                                            !.e1 = getEdge(graph, heap, a1, a2)])

Clone ==
    /\ Quiet
    /\ \E r \in {clone(graph, heap)} :
       Commit(graph, r.H, [NoRes EXCEPT !.op = "clone", !.g = r.G])

\* breadthFirstTraverse up to and including cb(startNode, null).  The
\* callback's return value is chosen freely at every invocation.
BfsBegin ==
    /\ Quiet
    /\ \E a \in NodeArgs, direction \in {"none", "out", "in"}, truthy \in BOOLEAN :
          LET startNode == Resolve(graph, a)
              edgeType == IF direction = "out" THEN "outEdges"
                          ELSE IF direction = "in" THEN "inEdges"
                          ELSE "edges"
          IN  bfs' = IF startNode = NoRef
                     THEN [BfsIdle EXCEPT !.pc = "done"]
                     ELSE [BfsIdle EXCEPT
                             !.pc = IF truthy THEN "done" ELSE "loop",
                             !.edgeType = edgeType,
                             !.startNode = startNode,
                             !.visited = [n \in Range(graph.nodes) |-> FALSE],
                             !.calls = <<<<startNode, NoRef>>>>,
                             !.stopped = truthy,
                             !.queue = IF truthy THEN <<>> ELSE <<startNode>>]
    /\ res' = NoRes
    /\ UNCHANGED <<graph, heap, inp>>

\* The head of the while loop with the head of the queue read but not removed.
BfsDequeueNoShift ==
    /\ bfs.pc = "loop"
    /\ bfs' = IF Len(bfs.queue) = 0
              THEN [bfs EXCEPT !.pc = "done"]
              ELSE [bfs EXCEPT !.pc = "scan",
                               !.currentNode = Head(bfs.queue),
                               !.i = 0]
    /\ UNCHANGED <<graph, heap, res, inp>>

\* while (queue.length) { currentNode = queue.shift(); ...
BfsDequeue ==
    /\ bfs.pc = "loop"
    /\ bfs' = IF Len(bfs.queue) = 0
              THEN [bfs EXCEPT !.pc = "done"]
              ELSE [bfs EXCEPT !.pc = "scan",
                               !.currentNode = Head(bfs.queue),
                               !.queue = Tail(bfs.queue),
                               !.i = 0]
    /\ UNCHANGED <<graph, heap, res, inp>>

\* The for loop without the return on a truthy callback result.
BfsScanNoReturn ==
    /\ bfs.pc = "scan"
    /\ LET edges == heap.node[bfs.currentNode][bfs.edgeType] IN
       IF bfs.i >= Len(edges)
       THEN bfs' = [bfs EXCEPT !.pc = "loop"]
       ELSE LET e == heap.edge[edges[bfs.i + 1]]
                otherNode == IF e.node1 = bfs.currentNode THEN e.node2 ELSE e.node1
            IN  IF bfs.visited[otherNode]
                THEN bfs' = [bfs EXCEPT !.i = @ + 1]
                ELSE \E truthy \in BOOLEAN :
                        bfs' = [bfs EXCEPT
                                  !.calls = Append(@, <<otherNode, bfs.currentNode>>),
                                  !.stopped = @ \/ truthy,
                                  !.queue = Append(@, otherNode),
                                  !.visited = [@ EXCEPT ![otherNode] = TRUE],
                                  !.i = @ + 1]
    /\ UNCHANGED <<graph, heap, res, inp>>

\* One iteration of the for loop over currentNode[edgeType].  The function
\* Object has no such list: reading its length throws.  A node that is not
\* in this.nodes was not reset when the call began: its mark is whatever an
\* earlier traversal left.
BfsScan ==
    /\ bfs.pc = "scan"
    /\ IF bfs.currentNode = ObjectFn
       THEN bfs' = [bfs EXCEPT !.pc = "thrown"]
       ELSE
       LET edges == heap.node[bfs.currentNode][bfs.edgeType] IN
       IF bfs.i >= Len(edges)
       THEN bfs' = [bfs EXCEPT !.pc = "loop"]
       ELSE LET e == heap.edge[edges[bfs.i + 1]]
                otherNode == IF e.node1 = bfs.currentNode THEN e.node2 ELSE e.node1
            IN  \E visited \in (IF otherNode \in DOMAIN bfs.visited
                                 THEN {bfs.visited[otherNode]} ELSE BOOLEAN) :
                IF visited
                THEN bfs' = [bfs EXCEPT !.i = @ + 1,
                                        !.visited = Put(@, otherNode, TRUE)]
                ELSE \E truthy \in BOOLEAN :
                        bfs' = IF truthy
                               THEN [bfs EXCEPT
                                       !.calls = Append(@, <<otherNode, bfs.currentNode>>),
                                       !.stopped = TRUE,
                                       !.pc = "done"]
                               ELSE [bfs EXCEPT
                                       !.calls = Append(@, <<otherNode, bfs.currentNode>>),
                                       !.queue = Append(@, otherNode),
                                       !.visited = Put(@, otherNode, TRUE),
                                       !.i = @ + 1]
    /\ UNCHANGED <<graph, heap, res, inp>>

\* breadthFirstTraverse has returned to its caller.  (A call that threw has
\* not: pc stays "thrown".)
BfsReturn ==
    /\ bfs.pc = "done"
    /\ bfs' = BfsIdle
    /\ UNCHANGED <<graph, heap, res, inp>>

\* Graph.fromMatrix applied to the drawn input.
FromMatrix ==
    /\ res.op = "none"
    /\ \E r \in {fromMatrix(inp.nodesData, inp.matrix, inp.directed)} :
          \E n \in {Normalize(NewGraph(FALSE), r.H,
                              [NoRes EXCEPT !.op = "fromMatrix", !.name = r.kind,
                                            !.g = IF r.kind = "graph" THEN r.G
                                                  ELSE NewGraph(FALSE)])} :
             /\ heap' = n.H
             /\ res' = n.r
    /\ UNCHANGED <<graph, bfs, inp>>

Next ==
    \/ AddNode
    \/ AddEdge
    \/ RemoveEdge
    \/ RemoveNode
    \/ FilterNode
    \/ FilterEdge
    \/ Clear

Spec == Init /\ [][Next]_vars

\* The store with clone.
NextClone ==
    \/ AddNode
    \/ AddEdge
    \/ RemoveNode
    \/ Clone

SpecClone == Init /\ [][NextClone]_vars

\* The store with breadth-first traversal.
NextBFS ==
    \/ AddNode
    \/ AddEdge
    \/ RemoveEdge
    \/ RemoveNode
    \/ BfsBegin
    \/ BfsDequeue
    \/ BfsScan
    \/ BfsReturn

SpecBFS == Init /\ [][NextBFS]_vars

\* breadthFirstTraverse is synchronous: once called, the loop runs on until
\* the method returns.
SpecBFSFair ==
    /\ Init
    /\ [][NextBFS]_vars
    /\ WF_vars(BfsDequeue)
    /\ WF_vars(BfsScan)
    /\ WF_vars(BfsReturn)

\* The store with its two look-ups.
NextQuery ==
    \/ AddNode
    \/ AddEdge
    \/ RemoveEdge
    \/ RemoveNode
    \/ GetNodeByName
    \/ GetEdge

SpecQuery == Init /\ [][NextQuery]_vars

\* The store with the two passes and callbacks that change the graph.
NextEach ==
    \/ AddNode
    \/ AddEdge
    \/ EachNode
    \/ EachNodeStep
    \/ EachEdge
    \/ EachEdgeStep

SpecEach == Init /\ [][NextEach]_vars

\* The store with callers that reuse a removed edge or Node.
NextMisuse ==
    \/ AddNode
    \/ AddEdge
    \/ RemoveEdge
    \/ RemoveNode
    \/ RemoveEdgeAgain
    \/ RemoveNodeAgain

SpecMisuse == Init /\ [][NextMisuse]_vars

\* Callers that pass any string where a name is expected, the inherited
\* keys of the two indices included.
InitAnyName ==
    /\ graph \in {NewGraph(d) : d \in BOOLEAN}
    /\ heap = EmptyHeap
    /\ res = NoRes
    /\ bfs = BfsIdle
    /\ inp = [NoInput EXCEPT !.names = {"a", "b"} \cup ProtoKeys]

NextAnyName ==
    \/ AddNode
    \/ AddEdge
    \/ RemoveNode
    \/ GetNodeByName
    \/ GetEdge
    \/ BfsBegin
    \/ BfsDequeue
    \/ BfsScan
    \/ BfsReturn

SpecAnyName == InitAnyName /\ [][NextAnyName]_vars

\* The store of Spec with such callers and the look-up by name.
NextStoreAnyName ==
    \/ AddNode
    \/ AddEdge
    \/ RemoveEdge
    \/ RemoveNode
    \/ FilterNode
    \/ FilterEdge
    \/ Clear
    \/ GetNodeByName

SpecStoreAnyName == InitAnyName /\ [][NextStoreAnyName]_vars

\* The matrix importer on every input within the bounds: any sequence of
\* pairwise distinct names and any matrix of rows, square or not.
SeqsUpTo(S, n) == UNION {[1..k -> S] : k \in 0..n}
DistinctSeqs(S, n) == {q \in SeqsUpTo(S, n) : \A i, j \in 1..Len(q) : q[i] = q[j] => i = j}

InitMatrix ==
    /\ graph = NewGraph(FALSE)
    /\ heap = EmptyHeap
    /\ res = NoRes
    /\ bfs = BfsIdle
    /\ inp \in [names     : {Names},
                nodesData : DistinctSeqs(Names, MaxSize),
                matrix    : SeqsUpTo(SeqsUpTo(Weights, MaxSize), MaxSize),
                directed  : BOOLEAN]

NextMatrix == FromMatrix

SpecMatrix == InitMatrix /\ [][NextMatrix]_vars

(***************************************************************************)
(* Properties.                                                             *)
(***************************************************************************)
\* The endpoint of edge e that is not node n (n itself for a self-loop).
Other(e, n) == IF heap.edge[e].node1 = n THEN heap.edge[e].node2 ELSE heap.edge[e].node1

\* The nodes one step from n through the edge list edgeType of n.
Nbrs(n, edgeType) == {Other(e, n) : e \in Range(heap.node[n][edgeType])}

\* The nodes reachable from the set S.
RECURSIVE ReachFrom(_, _)
ReachFrom(S, edgeType) ==
    LET S2 == S \cup UNION {Nbrs(n, edgeType) : n \in S}
    IN  IF S2 = S THEN S ELSE ReachFrom(S2, edgeType)

\* The distance of n from the set S (n is reachable from S), counted from k.
RECURSIVE DistFrom(_, _, _, _)
DistFrom(S, n, edgeType, k) ==
    IF n \in S THEN k
    ELSE DistFrom(S \cup UNION {Nbrs(m, edgeType) : m \in S}, n, edgeType, k + 1)

Dist(n) == DistFrom({bfs.startNode}, n, bfs.edgeType, 0)

Visits(n) == {k \in 1..Len(bfs.calls) : bfs.calls[k][1] = n}

\* A traversal from a resolved start node has returned and the callback
\* never returned a truthy value.
BfsRanToEnd == bfs.pc = "done" /\ bfs.startNode # NoRef /\ ~bfs.stopped

\* C1: a traversal whose callback never returns truthy invokes the callback
\* exactly once on each node reachable from the start node through the
\* selected edge lists (the start node included, its one visit with
\* predecessor null), and on no other node.
C1_EachReachableOnce ==
    BfsRanToEnd =>
        /\ \A n \in ReachFrom({bfs.startNode}, bfs.edgeType) : Cardinality(Visits(n)) = 1
        /\ \A k \in 1..Len(bfs.calls) :
              bfs.calls[k][1] \in ReachFrom({bfs.startNode}, bfs.edgeType)
        /\ \A k \in Visits(bfs.startNode) : bfs.calls[k][2] = NoRef

\* C8: without a truthy return, the callback invocations are in
\* non-decreasing distance from the start node, and every invocation with a
\* predecessor p has p exactly one step closer to the start node.
C8_BreadthFirstOrder ==
    (bfs.pc # "idle" /\ bfs.startNode # NoRef /\ ~bfs.stopped) =>
        /\ \A k, l \in 1..Len(bfs.calls) :
              k < l => Dist(bfs.calls[k][1]) <= Dist(bfs.calls[l][1])
        /\ \A k \in 1..Len(bfs.calls) :
              bfs.calls[k][2] # NoRef =>
                  Dist(bfs.calls[k][1]) = Dist(bfs.calls[k][2]) + 1

\* C7: once the callback has returned truthy the traversal has returned, and
\* nothing more happens in that call: the callback is not invoked again.
C7_StopHalts ==
    [][ /\ bfs'.stopped => bfs'.pc = "done"
        /\ bfs.stopped => (bfs' = bfs \/ bfs' = BfsIdle) ]_vars

\* C7 witness: the callback returned truthy on a node other than the first
\* while an edge of the current node was still unscanned or a node was
\* waiting in the queue, and a reachable node has not been visited.
C7_Witness ==
    /\ bfs.stopped
    /\ Len(bfs.calls) >= 2
    /\ \/ bfs.queue # <<>>
       \/ bfs.i + 1 < Len(heap.node[bfs.currentNode][bfs.edgeType])
    /\ \E n \in ReachFrom({bfs.startNode}, bfs.edgeType) : Visits(n) = {}

NodeNames(G, H) == [i \in 1..Len(G.nodes) |-> H.node[G.nodes[i]].name]
EdgePairs(G, H) ==
    [i \in 1..Len(G.edges) |-> <<H.node[H.edge[G.edges[i]].node1].name,
                                 H.node[H.edge[G.edges[i]].node2].name>>]

\* C2: clone() returns a graph of the same directedness with the same
\* sequence of node names and the same sequence of edge endpoint-name pairs,
\* made of Node and Edge objects distinct from the source's.
C2_CloneEquivalent ==
    res.op = "clone" =>
        /\ res.g.directed = graph.directed
        /\ NodeNames(res.g, heap) = NodeNames(graph, heap)
        /\ EdgePairs(res.g, heap) = EdgePairs(graph, heap)
        /\ Range(res.g.nodes) \cap Range(graph.nodes) = {}
        /\ Range(res.g.edges) \cap Range(graph.edges) = {}

RECURSIVE Sum(_)
Sum(q) == IF q = <<>> THEN 0 ELSE Head(q) + Sum(Tail(q))
Row(matrix, i) == matrix[i]
Col(matrix, i) == [k \in 1..Len(matrix) |-> matrix[k][i]]
Square(matrix, n) == Len(matrix) = n /\ \A k \in 1..Len(matrix) : Len(matrix[k]) = n

\* C3: for a valid input (n >= 1 names, an n x n matrix) fromMatrix returns
\* a graph of n nodes, node i named nodesData[i].name, with payload value =
\* row sum i + column sum i and, if directed, outValue = row sum and
\* inValue = column sum.
C3_FromMatrixValues ==
    (res.op = "fromMatrix" /\ Len(inp.nodesData) >= 1
         /\ Square(inp.matrix, Len(inp.nodesData))) =>
        /\ res.name = "graph"
        /\ res.g.directed = inp.directed
        /\ NodeNames(res.g, heap) = inp.nodesData
        /\ \A i \in 1..Len(res.g.nodes) :
              LET o == heap.node[res.g.nodes[i]].option IN
              /\ o.type = "object"
              /\ o.value = Sum(Row(inp.matrix, i)) + Sum(Col(inp.matrix, i))
              /\ inp.directed => /\ o.outValue = Sum(Row(inp.matrix, i))
                                 /\ o.inValue = Sum(Col(inp.matrix, i))

\* C4: fromMatrix returns absent whenever the matrix is empty or is not
\* square with side nodesData.length, whichever row has the wrong length.
C4_RejectsNonSquare ==
    (res.op = "fromMatrix"
         /\ (inp.matrix = <<>> \/ ~Square(inp.matrix, Len(inp.nodesData)))) =>
        res.name = "absent"

Touches(e, n) == heap.edge[e].node1 = n \/ heap.edge[e].node2 = n

\* C5: after removeNode(n) of a live node n, given by name or by reference,
\* n is not in nodes, getNodeByName(n.name) is absent and no edge left in
\* edges has n as node1 or node2.
C5_RemoveNodeDetaches ==
    (res.op = "removeNode" /\ res.n1 # NoRef) =>
        /\ res.n1 \notin Range(graph.nodes)
        /\ getNodeByName(graph, heap.node[res.n1].name) = NoRef
        /\ \A e \in Range(graph.edges) : ~Touches(e, res.n1)

\* C5 witness: a node given by reference was removed together with at least
\* one incident edge while another node and another edge stay.
C5_Witness ==
    /\ res.op = "removeNode" /\ res.n1 # NoRef
    /\ res.name = "node"
    /\ res.value >= 1
    /\ graph.nodes # <<>>
    /\ graph.edges # <<>>

\* C6: filterNode calls the predicate once on each node that was in nodes,
\* in the original order; afterwards nodes is the subsequence of accepted
\* nodes and no edge touches a rejected node.
C6_FilterNode ==
    res.op = "filterNode" =>
        LET Accepted(n) == n \in res.nset IN
        /\ Len(res.ncalls) = Len(res.nseq)
        /\ \A k \in 1..Len(res.nseq) : res.ncalls[k][1] = res.nseq[k]
        /\ graph.nodes = SelectSeq(res.nseq, Accepted)
        /\ \A e \in Range(graph.edges) :
              \A n \in Range(res.nseq) \ res.nset : ~Touches(e, n)

\* C6 witness: nodes [A,B,C] with only B rejected, and an edge of B removed.
C6_Witness ==
    /\ res.op = "filterNode"
    /\ Len(res.nseq) = 3
    /\ res.nset = {res.nseq[1], res.nseq[3]}
    /\ graph.nodes = <<res.nseq[1], res.nseq[3]>>
    /\ res.value >= 1

\* C9: addNode with a name already present returns the node the name index
\* holds (the one the first call returned), and leaves nodes, edges, both
\* indices and every live node, its payload included, unchanged.
C9_AddNodeIdempotent ==
    [][ (res'.op = "addNode" /\ getNodeByName(graph, res'.name) # NoRef) =>
            /\ res'.n1 = getNodeByName(graph, res'.name)
            /\ ~res'.flag
            /\ graph' = graph
            /\ \A n \in Range(graph.nodes) : heap'.node[n] = heap.node[n]
            /\ \A e \in Range(graph.edges) : heap'.edge[e] = heap.edge[e]
            /\ (res.op = "addNode" /\ res.name = res'.name) => res'.n1 = res.n1
      ]_vars

\* C9 witness: a repeated addNode with a payload other than the stored one,
\* on a graph that has edges.
C9_Witness ==
    /\ res.op = "addNode" /\ ~res.flag
    /\ heap.node[res.n1].option.value # res.value
    /\ Len(graph.nodes) >= 2
    /\ graph.edges # <<>>

\* C10: in an undirected graph, for distinct live nodes a and b with no edge
\* between them, addEdge(a,b) followed by addEdge(b,a) creates two distinct
\* edges, both in edges and both once in a.edges and in b.edges; addEdge(a,b)
\* again returns the existing edge and adds nothing.
C10_OppositeOrderEdges ==
    [][ (/\ res.op = "addEdge" /\ res.flag /\ res'.op = "addEdge"
         /\ ~graph.directed
         /\ res.n1 # res.n2
         /\ \A e \in Range(graph.edges) \ {res.e1} :
               ~(Touches(e, res.n1) /\ Touches(e, res.n2))) =>
            /\ (res'.n1 = res.n2 /\ res'.n2 = res.n1) =>
                  /\ res'.flag
                  /\ res'.e1 # res.e1
                  /\ {res.e1, res'.e1} \subseteq Range(graph'.edges)
                  /\ \A n \in {res.n1, res.n2} : \A e \in {res.e1, res'.e1} :
                        Cardinality({k \in 1..Len(heap'.node[n].edges) :
                                        heap'.node[n].edges[k] = e}) = 1
            /\ (res'.n1 = res.n1 /\ res'.n2 = res.n2) =>
                  /\ res'.e1 = res.e1
                  /\ graph' = graph
      ]_vars

\* The edges in edges that lead from node n1 to node n2.
EdgesFromTo(n1, n2) ==
    {e \in Range(graph.edges) : heap.edge[e].node1 = n1 /\ heap.edge[e].node2 = n2}

\* C11: getEdge(n1, n2) on live nodes, each given by name or as a Node: in a
\* directed graph it returns the edge in edges with node1 = n1 and node2 = n2
\* and is absent when there is none (also when only n2->n1 exists); in an
\* undirected graph it returns the edge stored for (n1, n2) if there is one,
\* otherwise the edge stored for (n2, n1), and is absent when neither exists.
C11_GetEdge ==
    (res.op = "getEdge" /\ res.n1 # NoRef /\ res.n2 # NoRef) =>
        IF EdgesFromTo(res.n1, res.n2) # {}
        THEN res.e1 \in EdgesFromTo(res.n1, res.n2)
        ELSE IF ~graph.directed /\ EdgesFromTo(res.n2, res.n1) # {}
        THEN res.e1 \in EdgesFromTo(res.n2, res.n1)
        ELSE res.e1 = NoRef

\* nodes, edges, both indices and every adjacency list are as they were.
GraphUnchanged ==
    /\ graph' = graph
    /\ \A n \in Range(graph.nodes) : heap'.node[n] = heap.node[n]
    /\ \A e \in Range(graph.edges) : heap'.edge[e] = heap.edge[e]

\* C12: a name that resolves to no live node never raises a fault and never
\* changes the graph: getNodeByName and getEdge with it return absent,
\* addEdge with it for either endpoint returns absent, removeNode of it is a
\* no-op and breadthFirstTraverse from it never invokes the callback.
C12_UnknownName ==
    [][ /\ (res'.op = "getNodeByName" /\ LiveNamed(graph, heap, res'.name) = NoRef) =>
              /\ res'.n1 = NoRef
              /\ GraphUnchanged
        /\ (res'.op = "getEdge" /\ (res'.n1 = NoRef \/ res'.n2 = NoRef)) =>
              /\ res'.e1 = NoRef
              /\ GraphUnchanged
        /\ (res'.op = "addEdge"
               /\ (res'.n1 \notin Range(graph.nodes) \/ res'.n2 \notin Range(graph.nodes))) =>
              /\ res'.e1 = NoRef
              /\ ~res'.fault
              /\ GraphUnchanged
        /\ (res'.op = "removeNode" /\ res'.name = "string"
               /\ res'.n1 \notin Range(graph.nodes)) =>
              GraphUnchanged
        /\ (bfs.pc = "idle" /\ bfs'.pc # "idle"
               /\ bfs'.startNode \notin Range(graph.nodes)) =>
              /\ bfs'.calls = <<>>
              /\ bfs'.pc = "done"
              /\ GraphUnchanged
      ]_vars

\* A step of a pass invoked the callback: the invocation it added.
Invoked(calls, calls2) == Len(calls2) > Len(calls)
LastCall(calls2) == calls2[Len(calls2)]

\* C13: eachNode (eachEdge) invokes the callback at most len times, len the
\* length when the call began; each invocation is with an entity that is in
\* nodes (edges) at that moment, at the index passed, never an absent slot,
\* whatever the callback removes; an entity the callback appended during
\* the pass is not visited.
C13_EachPass ==
    [][ /\ (res.op = "eachNode" /\ res.running) =>
              /\ Len(res'.ncalls) <= Len(res.nseq)
              /\ Invoked(res.ncalls, res'.ncalls) =>
                    /\ LastCall(res'.ncalls)[1] # NoRef
                    /\ At(graph.nodes, LastCall(res'.ncalls)[2]) = LastCall(res'.ncalls)[1]
                    /\ LastCall(res'.ncalls)[1] \in Range(res.nseq)
        /\ (res.op = "eachEdge" /\ res.running) =>
              /\ Len(res'.ecalls) <= Len(res.eseq)
              /\ Invoked(res.ecalls, res'.ecalls) =>
                    /\ LastCall(res'.ecalls)[1] # NoRef
                    /\ At(graph.edges, LastCall(res'.ecalls)[2]) = LastCall(res'.ecalls)[1]
                    /\ LastCall(res'.ecalls)[1] \in Range(res.eseq)
      ]_vars

\* The entities of a finished pass that were in the sequence when it began
\* and were not removed during it.
Survivors(seq, removed) == Range(seq) \ removed
CallsOn(calls, x) == {k \in 1..Len(calls) : calls[k][1] = x}

\* C19: when the callback of eachNode removes only the node it is called
\* with, every other node that was in nodes when the call began and was not
\* removed is passed to the callback exactly once; the same for eachEdge.
C19_NoSurvivorSkipped ==
    /\ (res.op = "eachNode" /\ ~res.running /\ res.name = "current") =>
          \A n \in Survivors(res.nseq, res.nset) :
             Cardinality(CallsOn(res.ncalls, n)) = 1
    /\ (res.op = "eachEdge" /\ ~res.running /\ res.name = "current") =>
          \A e \in Survivors(res.eseq, res.eset) :
             Cardinality(CallsOn(res.ecalls, e)) = 1

\* The edges of edges, in their order there, that satisfy Test.
EdgesWhere(Test(_)) == SelectSeq(graph.edges, Test)

\* C14: for every node n in nodes, n.edges is exactly the edges of edges
\* with node1 = n or node2 = n, in insertion order, each once; in a directed
\* graph n.outEdges (n.inEdges) is exactly those with node1 = n (node2 = n);
\* in an undirected graph n.inEdges and n.outEdges are empty.
C14_AdjacencyLists ==
    \A n \in Range(graph.nodes) :
        LET Incident(e) == Touches(e, n)
            Out(e) == heap.edge[e].node1 = n
            In(e) == heap.edge[e].node2 = n
        IN  /\ heap.node[n].edges = EdgesWhere(Incident)
            /\ heap.node[n].outEdges = IF graph.directed THEN EdgesWhere(Out) ELSE <<>>
            /\ heap.node[n].inEdges = IF graph.directed THEN EdgesWhere(In) ELSE <<>>

\* C15: both indices agree with the sequences.  The name index has exactly
\* one entry per node of nodes, getNodeByName(n.name) is n for every node n of
\* nodes and absent for every other name; the pair index has exactly one
\* entry per edge of edges, under the key built from the edge's node1.name
\* and node2.name, and no entry for a removed edge.
C15_IndicesAgree ==
    /\ Cardinality(DOMAIN graph.nodesMap) = Len(graph.nodes)
    /\ \A n \in Range(graph.nodes) : getNodeByName(graph, heap.node[n].name) = n
    /\ res.op = "getNodeByName" => res.n1 = LiveNamed(graph, heap, res.name)
    /\ Cardinality(DOMAIN graph.edgesMap) = Len(graph.edges)
    /\ \A e \in Range(graph.edges) :
          Lookup(graph.edgesMap,
                 EdgeKey(heap, heap.edge[e].node1, heap.edge[e].node2)) = e
    /\ MapVals(graph.edgesMap) \subseteq Range(graph.edges)

\* The edges of the returned graph that lead from its node i to its node j.
MatrixEdges(i, j) ==
    {e \in Range(res.g.edges) : /\ heap.edge[e].node1 = res.g.nodes[i]
                                /\ heap.edge[e].node2 = res.g.nodes[j]}

\* C16: for a valid square matrix and directed = true, fromMatrix returns a
\* graph in which, for all i # j, there is an edge from node i to node j
\* exactly if matrix[i][j] is nonzero, and that edge has weight matrix[i][j],
\* whatever the mirrored cell matrix[j][i] is.
C16_DirectedEdgeIffNonzero ==
    (res.op = "fromMatrix" /\ inp.directed /\ Len(inp.nodesData) >= 1
         /\ Square(inp.matrix, Len(inp.nodesData))) =>
        /\ res.name = "graph"
        /\ Len(res.g.nodes) = Len(inp.matrix)
        /\ \A i, j \in 1..Len(inp.matrix) :
              i # j =>
                 IF inp.matrix[i][j] # 0
                 THEN /\ MatrixEdges(i, j) # {}
                      /\ \A e \in MatrixEdges(i, j) :
                            heap.edge[e].option.weight = inp.matrix[i][j]
                 ELSE MatrixEdges(i, j) = {}

\* C17: removeEdge of an edge that is no longer live and removeNode of a Node
\* object that was already removed leave the graph as it was: nodes, edges,
\* both indices, and the adjacency lists and endpoints of the live entities.
C17_MisuseRemovesNothing ==
    [][(res'.op \in Misuse) =>
          /\ graph' = graph
          /\ \A n \in Range(graph.nodes) : heap'.node[n] = heap.node[n]
          /\ \A e \in Range(graph.edges) : heap'.edge[e] = heap.edge[e]]_vars

\* C20: with arbitrary node names, '-' included, the edge returned by
\* addEdge(n1, n2) on live nodes has node1 = n1 and node2 = n2, the edge
\* returned by getEdge(n1, n2) joins n1 and n2, and two different ordered
\* pairs of live nodes never have the same key in the pair index.
C20_PairKeyInjective ==
    /\ (res.op = "addEdge" /\ res.e1 # NoRef) =>
           /\ heap.edge[res.e1].node1 = res.n1
           /\ heap.edge[res.e1].node2 = res.n2
    /\ (res.op = "getEdge" /\ res.e1 # NoRef /\ res.n1 # NoRef /\ res.n2 # NoRef) =>
           \/ /\ heap.edge[res.e1].node1 = res.n1
              /\ heap.edge[res.e1].node2 = res.n2
           \/ /\ ~graph.directed
              /\ heap.edge[res.e1].node1 = res.n2
              /\ heap.edge[res.e1].node2 = res.n1
    /\ \A n1, n2, m1, m2 \in Range(graph.nodes) :
           EdgeKey(heap, n1, n2) = EdgeKey(heap, m1, m2) => n1 = m1 /\ n2 = m2

\* How often cb was invoked for node n in the traversal under way.  A node
\* is pushed to the queue once per invocation (startNode: when the queue is
\* created).
Enqueued(n) == Cardinality({k \in 1..Len(bfs.calls) : bfs.calls[k][1] = n})

EnqueuedBounded ==
    \A n \in Range(graph.nodes) :
        Enqueued(n) <= (IF n = bfs.startNode THEN 2 ELSE 1)

\* C18: breadthFirstTraverse terminates on every graph, with cycles,
\* self-loops and opposite-order edges, from every start node and in every
\* direction, when the callback does not mutate the graph: every node is
\* enqueued a bounded number of times (startNode at most twice, any other node
\* at most once), a call under way always returns, and unless the callback
\* stopped it the queue is empty by then.
C18_BfsTerminates ==
    /\ []EnqueuedBounded
    /\ []((bfs.pc = "done" /\ ~bfs.stopped) => bfs.queue = <<>>)
    /\ (bfs.pc \in {"loop", "scan"}) ~> (bfs.pc = "done")

\* A traversal that was not stopped has returned on a graph with a cycle of
\* opposite-order edges or a self-loop, after dequeuing startNode twice.
C18_Witness ==
    /\ bfs.pc = "done"
    /\ ~bfs.stopped
    /\ Enqueued(bfs.startNode) = 2
    /\ \E e1, e2 \in Range(graph.edges) :
          /\ heap.edge[e1].node1 = heap.edge[e2].node2
          /\ heap.edge[e1].node2 = heap.edge[e2].node1

====
